---------------------------- MODULE Spec2Model ----------------------------
(***************************************************************************)
(* Model of feature_engineer_module.c (NEMEA feature engineer module):     *)
(* process_flow(), which derives the per-flow features, and the receive /  *)
(* process / send loop of main().                                          *)
(*                                                                         *)
(* Machine integers keep their C widths.  TLC's integers are 32 bit, so a  *)
(* uint32_t / uint64_t value is a little-endian sequence of base-256       *)
(* digits without leading zeros (<<>> is 0) and the arithmetic below is    *)
(* done on digits; truncation to a width is an explicit Wrap.              *)
(*                                                                         *)
(* A double is an exact fraction num/den with a sign, or Inf, or NaN: the  *)
(* rounding of IEEE-754 is not modelled, division by zero is (x/0 = Inf,   *)
(* 0/0 = NaN).                                                              *)
(***************************************************************************)
EXTENDS Integers, Sequences, FiniteSets, TLC

(***************************************************************************)
(* Bounds of the model                                                     *)
(***************************************************************************)
\* longest per-packet vector of an input record
MaxLen == 2
\* number of records the input interface delivers before it only ends
MaxRecords == 2

(***************************************************************************)
(* Unsigned integers of any width                                          *)
(***************************************************************************)
Base == 16 * 16

Max2(x, y) == IF x >= y THEN x ELSE y
Min2(x, y) == IF x <= y THEN x ELSE y

RECURSIVE Norm(_)
Norm(a) ==
  IF a = <<>> THEN <<>>
  ELSE IF a[Len(a)] = 0 THEN Norm(SubSeq(a, 1, Len(a) - 1))
  ELSE a

RECURSIVE BigOf(_)
BigOf(n) == IF n = 0 THEN <<>> ELSE <<n % Base>> \o BigOf(n \div Base)

Digit(a, i) == IF i <= Len(a) THEN a[i] ELSE 0

RECURSIVE AddFrom(_, _, _, _, _)
AddFrom(a, b, i, n, carry) ==
  IF i > n THEN (IF carry = 0 THEN <<>> ELSE <<carry>>)
  ELSE LET s == Digit(a, i) + Digit(b, i) + carry
       IN <<s % Base>> \o AddFrom(a, b, i + 1, n, s \div Base)

BAdd(a, b) == Norm(AddFrom(a, b, 1, Max2(Len(a), Len(b)), 0))

BLe(a, b) ==
  IF Len(a) # Len(b) THEN Len(a) < Len(b)
  ELSE \/ a = b
       \/ \E i \in 1..Len(a) :
            /\ a[i] < b[i]
            /\ \A j \in (i + 1)..Len(a) : a[j] = b[j]

BLt(a, b) == BLe(a, b) /\ a # b

RECURSIVE SubFrom(_, _, _, _, _)
SubFrom(a, b, i, n, borrow) ==
  IF i > n THEN <<>>
  ELSE LET d == Digit(a, i) - Digit(b, i) - borrow
       IN <<(d + Base) % Base>> \o SubFrom(a, b, i + 1, n, IF d < 0 THEN 1 ELSE 0)

\* a - b for a >= b
BSub(a, b) == Norm(SubFrom(a, b, 1, Len(a), 0))

RECURSIVE MulDigitFrom(_, _, _, _)
MulDigitFrom(a, d, i, carry) ==
  IF i > Len(a) THEN (IF carry = 0 THEN <<>> ELSE <<carry>>)
  ELSE LET p == a[i] * d + carry
       IN <<p % Base>> \o MulDigitFrom(a, d, i + 1, p \div Base)

RECURSIVE BMul(_, _)
BMul(a, b) ==
  IF a = <<>> \/ b = <<>> THEN <<>>
  ELSE LET rest == BMul(a, Tail(b))
       IN BAdd(Norm(MulDigitFrom(a, b[1], 1, 0)),
               IF rest = <<>> THEN <<>> ELSE <<0>> \o rest)

\* the value modulo 256^k
Wrap(a, k) == Norm(SubSeq(a, 1, Min2(k, Len(a))))
\* conversion to uint32_t, uint64_t
Wrap32(a) == Wrap(a, 4)
Wrap64(a) == Wrap(a, 8)

\* 256^k
Pow256(k) == [i \in 1..(k + 1) |-> IF i = k + 1 THEN 1 ELSE 0]

BigZero == <<>>
BigOne == <<1>>
U32Max == <<255, 255, 255, 255>>
U64Max == <<255, 255, 255, 255, 255, 255, 255, 255>>

(***************************************************************************)
(* double                                                                  *)
(***************************************************************************)
DFin(neg, num, den) ==
  IF num = BigZero
    THEN [k |-> "fin", neg |-> FALSE, num |-> BigZero, den |-> BigOne]
    ELSE [k |-> "fin", neg |-> neg, num |-> num, den |-> den]

DZero == DFin(FALSE, BigZero, BigOne)
DInf == [k |-> "inf", neg |-> FALSE, num |-> BigZero, den |-> BigOne]
DNaN == [k |-> "nan", neg |-> FALSE, num |-> BigZero, den |-> BigOne]

\* (double)x of an unsigned integer x
ToDouble(x) == DFin(FALSE, x, BigOne)

\* (double)x / (double)y of unsigned integers x, y
DDivU(x, y) ==
  IF y = BigZero THEN (IF x = BigZero THEN DNaN ELSE DInf)
  ELSE DFin(FALSE, x, y)

\* a * b
DMul(a, b) ==
  IF a.k = "nan" \/ b.k = "nan" THEN DNaN
  ELSE IF a.k = "inf" \/ b.k = "inf"
    THEN (IF a = DZero \/ b = DZero THEN DNaN ELSE DInf)
  ELSE DFin(a.neg # b.neg, BMul(a.num, b.num), BMul(a.den, b.den))

\* a - b of doubles a, b >= 0
DSub(a, b) ==
  IF a.k = "nan" \/ b.k = "nan" THEN DNaN
  ELSE IF a.k = "inf" \/ b.k = "inf"
    THEN (IF a.k = b.k THEN DNaN ELSE [DInf EXCEPT !.neg = (b.k = "inf")])
  ELSE LET x == BMul(a.num, b.den)
           y == BMul(b.num, a.den)
           d == BMul(a.den, b.den)
       IN IF BLe(y, x) THEN DFin(FALSE, BSub(x, y), d)
          ELSE DFin(TRUE, BSub(y, x), d)

(***************************************************************************)
(* Input records.  A timestamp (ur_time_t) is a whole number of            *)
(* milliseconds; packets and bytes are uint32_t / uint64_t; a direction is *)
(* an int8_t, a length a uint16_t.                                         *)
(***************************************************************************)
\* 2^32 ms, i.e. about 49.7 days
Time2p32 == Pow256(4)

DirVals == {1, -1}
LenVals == {363, 65535}
TimeVals == {BigZero, Time2p32}

\* (BYTES, BYTES_REV, PACKETS, PACKETS_REV)
CounterCases ==
  { <<BigZero, BigZero, BigZero, BigZero>>,
    <<BigOf(1000), BigOf(500), BigOf(10), BigOf(5)>>,
    <<U64Max, BigOne, U32Max, BigOne>> }

\* (TIME_FIRST, TIME_LAST)
TimeCases == { <<BigZero, BigZero>>, <<BigZero, BigOf(100)>> }

SeqsUpTo(S, n) == UNION { [1..k -> S] : k \in 0..n }

Records ==
  { [ src_ip |-> 1, dst_ip |-> 2,
      bytes |-> c[1], bytes_rev |-> c[2], packets |-> c[3], packets_rev |-> c[4],
      time_first |-> t[1], time_last |-> t[2],
      dirs |-> d, lens |-> l, times |-> ts ] :
    c \in CounterCases, t \in TimeCases,
    d \in SeqsUpTo(DirVals, MaxLen), l \in SeqsUpTo(LenVals, MaxLen),
    ts \in SeqsUpTo(TimeVals, MaxLen) }

\* the invariant of the comment at line 159: all arrays have the same length
ValidRecord(r) == Len(r.dirs) = Len(r.lens) /\ Len(r.lens) = Len(r.times)

NoRec == [ src_ip |-> 0, dst_ip |-> 0,
           bytes |-> BigZero, bytes_rev |-> BigZero,
           packets |-> BigZero, packets_rev |-> BigZero,
           time_first |-> BigZero, time_last |-> BigZero,
           dirs |-> <<>>, lens |-> <<>>, times |-> <<>> ]

\* what a read past the end of pkt_lens / pkt_times may find
OobLens == {0, 7}
OobTimes == {BigZero, BigOf(5)}
Oobs == [len : OobLens, time : OobTimes]

\* what the build makes of the signed overflow of pkt_lens[i]*pkt_lens[i]:
\* "wrap": a 32-bit product, sign-extended to 64 bits;
\* "wide": the product computed in a 64-bit register
Builds == {"wrap", "wide"}

(***************************************************************************)
(* process_flow                                                            *)
(***************************************************************************)
INT16_MAX == 32767
\* INT_MAX + 1 = 2^31
IntLimit == <<0, 0, 0, 128>>

\* ur_timediff(a, b): the absolute difference, in milliseconds (uint64_t)
ur_timediff(a, b) == IF BLe(b, a) THEN BSub(a, b) ELSE BSub(b, a)

\* uint64_t bytes_total = bytes + bytes_rev
BytesTotal(bytes, bytes_rev) == Wrap64(BAdd(bytes, bytes_rev))
\* uint32_t packets_total = packets + packets_rev
PacketsTotal(packets, packets_rev) == Wrap32(BAdd(packets, packets_rev))

\* bytes_rev == 0 ? 0 : (double)bytes/(double)bytes_rev
BytesRatio(bytes, bytes_rev) ==
  IF bytes_rev = BigZero THEN DZero ELSE DDivU(bytes, bytes_rev)
\* packets_rev == 0 ? 0 : (double)packets/(double)packets_rev
PacketsRatio(packets, packets_rev) ==
  IF packets_rev = BigZero THEN DZero ELSE DDivU(packets, packets_rev)

\* (double)(bytes+bytes_rev)/(double)time_duration_ms
BytesPerMs(bytes, bytes_rev, time_duration_ms) ==
  DDivU(Wrap64(BAdd(bytes, bytes_rev)), time_duration_ms)
\* (double)(packets+packets_rev)/(double)time_duration_ms
PacketsPerMs(packets, packets_rev, time_duration_ms) ==
  DDivU(Wrap32(BAdd(packets, packets_rev)), time_duration_ms)

\* pkt_lens[i], pkt_times[i] (i from 1): past the end of the vector the
\* read finds whatever lies there
PktLen(r, i, oob) == IF i <= Len(r.lens) THEN r.lens[i] ELSE oob.len
PktTime(r, i, oob) == IF i <= Len(r.times) THEN r.times[i] ELSE oob.time

\* pkt_lens[i]*pkt_lens[i], an int, converted to uint64_t
LenSquared(l, build) ==
  LET sq == BMul(BigOf(l), BigOf(l))
  IN IF BLt(sq, IntLimit) THEN sq
     ELSE IF build = "wrap" THEN BSub(Pow256(8), BSub(Pow256(4), sq))
     ELSE sq

ScanInit ==
  [ sent |-> 0, recv |-> 0, interval_sum |-> BigZero, interval_cnt |-> 0,
    min_pkt_length |-> INT16_MAX, max_pkt_length |-> 0,
    pkt_length_sum |-> BigZero, pkt_length_sum_squared |-> BigZero ]

\* interval_sum += (i < pkt_dirs_len-1) ? ur_timediff(pkt_times[i+1], pkt_times[i]) : 0
\* (i from 1 here)
IntervalStep(interval_sum, r, i, pkt_dirs_len, oob) ==
  Wrap32(BAdd(interval_sum,
              IF i < pkt_dirs_len
                THEN ur_timediff(PktTime(r, i + 1, oob), PktTime(r, i, oob))
                ELSE BigZero))

\* one iteration of the loop over the vectors
ScanStep(a, r, i, pkt_dirs_len, oob, build) ==
  LET len == PktLen(r, i, oob)
  IN [ sent |-> IF r.dirs[i] = 1 THEN a.sent + 1 ELSE a.sent,
       recv |-> IF r.dirs[i] = 1 THEN a.recv ELSE a.recv + 1,
       interval_sum |-> IntervalStep(a.interval_sum, r, i, pkt_dirs_len, oob),
       interval_cnt |-> a.interval_cnt + 1,
       pkt_length_sum |-> Wrap64(BAdd(a.pkt_length_sum, BigOf(len))),
       pkt_length_sum_squared |->
         Wrap64(BAdd(a.pkt_length_sum_squared, LenSquared(len, build))),
       min_pkt_length |-> IF len < a.min_pkt_length THEN len ELSE a.min_pkt_length,
       max_pkt_length |-> IF len > a.max_pkt_length THEN len ELSE a.max_pkt_length ]

\* for(int i = 0; i < pkt_dirs_len; ++i)
RECURSIVE ScanFrom(_, _, _, _, _, _)
ScanFrom(a, r, i, pkt_dirs_len, oob, build) ==
  IF i > pkt_dirs_len THEN a
  ELSE ScanFrom(ScanStep(a, r, i, pkt_dirs_len, oob, build), r, i + 1,
                pkt_dirs_len, oob, build)

Scan(r, oob, build) == ScanFrom(ScanInit, r, 1, Len(r.dirs), oob, build)

\* interval_cnt == 0 ? 0 : (double)interval_sum / (double)interval_cnt
MeanPktTime(interval_sum, interval_cnt) ==
  IF interval_cnt = 0 THEN DZero ELSE DDivU(interval_sum, BigOf(interval_cnt))

\* a variant without the guard: (double)pkt_length_sum / (double)pkt_dirs_len
MeanPktLen_Unguarded(pkt_length_sum, pkt_dirs_len) ==
  DDivU(pkt_length_sum, BigOf(pkt_dirs_len))

\* pkt_dirs_len == 0 ? 0 : (double)pkt_length_sum / (double)pkt_dirs_len
MeanPktLen(pkt_length_sum, pkt_dirs_len) ==
  IF pkt_dirs_len = 0 THEN DZero ELSE DDivU(pkt_length_sum, BigOf(pkt_dirs_len))

\* mean_pkt_len == 0 ? 0 :
\*   ((double)pkt_length_sum_squared/(double)pkt_dirs_len) - (mean_pkt_len*mean_pkt_len)
VarPktLen(mean_pkt_len, pkt_length_sum_squared, pkt_dirs_len) ==
  IF mean_pkt_len = DZero THEN DZero
  ELSE DSub(DDivU(pkt_length_sum_squared, BigOf(pkt_dirs_len)),
            DMul(mean_pkt_len, mean_pkt_len))

\* sent+recv == 0 ? 0 : sent/(sent+recv), a uint32_t division, stored as double
SentPercentage(sent, recv) ==
  IF sent + recv = 0 THEN DZero ELSE ToDouble(BigOf(sent \div (sent + recv)))
\* sent+recv == 0 ? 0 : recv/(sent+recv)
RecvPercentage(sent, recv) ==
  IF sent + recv = 0 THEN DZero ELSE ToDouble(BigOf(recv \div (sent + recv)))

\* the output record as ur_create_record returns it: zeroed memory
OutInit ==
  [ DST_IP |-> 0, SRC_IP |-> 0, TIME_FIRST |-> BigZero, TIME_LAST |-> BigZero,
    BYTES |-> BigZero, BYTES_REV |-> BigZero,
    PACKETS |-> BigZero, PACKETS_REV |-> BigZero,
    PPI_PKT_DIRECTIONS |-> <<>>, PPI_PKT_LENGTHS |-> <<>>,
    PPI_PKT_TIMES |-> <<>>, PPI_PKT_FLAGS |-> <<>>,
    BYTES_RATIO |-> DZero, TIME_DUR_MS |-> BigZero, BYTES_PER_MS |-> DZero,
    PACKETS_PER_MS |-> DZero, PACKETS_RATIO |-> DZero,
    PACKETS_TOTAL |-> BigZero, BYTES_TOTAL |-> BigZero,
    SENT_PERCENTAGE |-> DZero, RECV_PERCENTAGE |-> DZero,
    MEAN_TIME_BETWEEN_PKTS |-> DZero, MEAN_PKT_LENGTH |-> DZero,
    VAR_PKT_LENGTH |-> DZero, MIN_PKT_LEN |-> 0, MAX_PKT_LEN |-> 0 ]

\* the ur_set calls: the fields of out that process_flow writes; the others
\* (MIN_PKT_LEN, MAX_PKT_LEN, the PPI_ vectors) keep what out held
FillOutput(out, r, a) ==
  LET time_duration_ms == ur_timediff(r.time_last, r.time_first)
      mean_pkt_len == MeanPktLen(a.pkt_length_sum, Len(r.dirs))
  IN [ out EXCEPT
         !.DST_IP = r.dst_ip, !.SRC_IP = r.src_ip,
         !.TIME_FIRST = r.time_first, !.TIME_LAST = r.time_last,
         !.BYTES = r.bytes, !.BYTES_REV = r.bytes_rev,
         !.PACKETS = r.packets, !.PACKETS_REV = r.packets_rev,
         !.BYTES_RATIO = BytesRatio(r.bytes, r.bytes_rev),
         !.TIME_DUR_MS = time_duration_ms,
         !.BYTES_PER_MS = BytesPerMs(r.bytes, r.bytes_rev, time_duration_ms),
         !.PACKETS_PER_MS = PacketsPerMs(r.packets, r.packets_rev, time_duration_ms),
         !.PACKETS_RATIO = PacketsRatio(r.packets, r.packets_rev),
         !.PACKETS_TOTAL = PacketsTotal(r.packets, r.packets_rev),
         !.BYTES_TOTAL = BytesTotal(r.bytes, r.bytes_rev),
         !.SENT_PERCENTAGE = SentPercentage(a.sent, a.recv),
         !.RECV_PERCENTAGE = RecvPercentage(a.sent, a.recv),
         !.MEAN_TIME_BETWEEN_PKTS = MeanPktTime(a.interval_sum, a.interval_cnt),
         !.MEAN_PKT_LENGTH = mean_pkt_len,
         !.VAR_PKT_LENGTH =
           VarPktLen(mean_pkt_len, a.pkt_length_sum_squared, Len(r.dirs)) ]

\* process_flow(in_tmplt, in_rec, out_tmplt, out_rec): the value returned, the
\* output record and the locals of the scan
process_flow(r, out, oob, build) ==
  LET a == Scan(r, oob, build)
  IN [ ret |-> 0, out |-> FillOutput(out, r, a), scan |-> a ]

(***************************************************************************)
(* main: the state                                                         *)
(***************************************************************************)
VARIABLES
  pc,        \* where main is: "loop", "process", "send", "done"
             \* ("compute", "computed" in SpecCompute)
  stop,      \* the flag the signal handler sets
  build,     \* what the build makes of the signed overflow (see Builds)
  in_rec,    \* the record received
  out_rec,   \* the output record, allocated once and reused
  ret,       \* what process_flow returned
  scan,      \* the locals of process_flow after its loop
  nrecv,     \* history: records received that passed the size check
  out_of,    \* history: the number of the record out_rec was filled from
  handed,    \* history: the calls of trap_send, [id, of]
  emitted,   \* history: the ids trap_send accepted
  memo       \* history: one earlier call of process_flow, <<input, output>>

vars == <<pc, stop, build, in_rec, out_rec, ret, scan, nrecv, out_of, handed,
          emitted, memo>>

NoMemo == <<>>

\* the records the input interface delivers to the loop
LoopRecords ==
  { r \in Records :
      /\ r.bytes = BigOf(1000)
      /\ r.time_last = BigOf(100)
      /\ Len(r.dirs) <= 1 /\ Len(r.lens) <= 1 /\ Len(r.times) <= 1
      /\ \A i \in 1..Len(r.dirs) : r.dirs[i] = 1
      /\ \A i \in 1..Len(r.lens) : r.lens[i] = 363
      /\ \A i \in 1..Len(r.times) : r.times[i] = BigZero }

Init ==
  /\ pc = "loop"
  /\ stop = 0
  /\ build \in Builds
  /\ in_rec = NoRec
  /\ out_rec = OutInit
  /\ ret = 0
  /\ scan = ScanInit
  /\ nrecv = 0
  /\ out_of = 0
  /\ handed = <<>>
  /\ emitted = <<>>
  /\ memo = NoMemo

(***************************************************************************)
(* main: the loop                                                          *)
(***************************************************************************)
\* TRAP_DEFAULT_SIGNAL_HANDLER(stop = 1)
Signal ==
  /\ pc # "done"
  /\ stop = 0
  /\ stop' = 1
  /\ UNCHANGED <<pc, build, in_rec, out_rec, ret, scan, nrecv, out_of, handed,
                 emitted, memo>>

\* while (!stop), left
LoopExit ==
  /\ pc = "loop"
  /\ stop = 1
  /\ pc' = "done"
  /\ UNCHANGED <<stop, build, in_rec, out_rec, ret, scan, nrecv, out_of, handed,
                 emitted, memo>>

\* TRAP_DEFAULT_RECV_ERROR_HANDLING(ret, continue, break) and the check of
\* in_rec_size: where the loop goes after TRAP_RECEIVE
\* size: "ok" (>= the fixed length), "eos" (<= 1), "short" (any other)
AfterReceive(code, size) ==
  IF code = "TRAP_E_TIMEOUT" THEN "loop"
  ELSE IF code \notin {"TRAP_E_OK", "TRAP_E_FORMAT_CHANGED"} THEN "done"
  ELSE IF size # "ok" THEN "done"
  ELSE "process"

RecvCodes == {"TRAP_E_OK", "TRAP_E_FORMAT_CHANGED", "TRAP_E_TIMEOUT",
              "TRAP_E_TERMINATED"}
RecvSizes == {"ok", "eos", "short"}

\* ret = TRAP_RECEIVE(0, in_rec, in_rec_size, in_tmplt), its error handling
\* and the size check
Receive ==
  /\ pc = "loop"
  /\ stop = 0
  /\ \E code \in RecvCodes, size \in RecvSizes, r \in LoopRecords :
       /\ (AfterReceive(code, size) = "process") => nrecv < MaxRecords
       /\ pc' = AfterReceive(code, size)
       /\ IF AfterReceive(code, size) = "process"
            THEN in_rec' = r /\ nrecv' = nrecv + 1
            ELSE UNCHANGED <<in_rec, nrecv>>
  /\ UNCHANGED <<stop, build, out_rec, ret, scan, out_of, handed, emitted, memo>>

\* process_flow(in_tmplt, in_rec, out_tmplt, out_rec); a return of -1 is only
\* reported on stderr
Process ==
  /\ pc = "process"
  /\ \E oob \in Oobs :
       LET res == process_flow(in_rec, out_rec, oob, build)
       IN /\ out_rec' = res.out
          /\ ret' = res.ret
          /\ scan' = res.scan
          /\ memo' \in (IF memo = NoMemo THEN {NoMemo, <<in_rec, res.out>>}
                        ELSE {memo})
  /\ out_of' = nrecv
  /\ pc' = "send"
  /\ UNCHANGED <<stop, build, in_rec, nrecv, handed, emitted>>

\* a variant that sends again after a timeout instead of continuing
AfterSend_Retry(code) ==
  IF code = "TRAP_E_OK" THEN "loop"
  ELSE IF code = "TRAP_E_TIMEOUT" THEN "send"
  ELSE "done"

\* TRAP_DEFAULT_SEND_ERROR_HANDLING(ret, continue, break)
AfterSend(code) ==
  IF code = "TRAP_E_OK" THEN "loop"
  ELSE IF code = "TRAP_E_TIMEOUT" THEN "loop"
  ELSE "done"

SendCodes == {"TRAP_E_OK", "TRAP_E_TIMEOUT", "TRAP_E_TERMINATED"}

\* ret = trap_send(0, out_rec, ur_rec_fixlen_size(out_tmplt)) and its error
\* handling
Send ==
  /\ pc = "send"
  /\ handed' = Append(handed, [id |-> nrecv, of |-> out_of])
  /\ \E code \in SendCodes :
       /\ emitted' = (IF code = "TRAP_E_OK" THEN Append(emitted, nrecv)
                      ELSE emitted)
       /\ pc' = AfterSend(code)
  /\ UNCHANGED <<stop, build, in_rec, out_rec, ret, scan, nrecv, out_of, memo>>

Next == Signal \/ LoopExit \/ Receive \/ Process \/ Send

Spec == Init /\ [][Next]_vars

(***************************************************************************)
(* process_flow alone, on every record of Records                          *)
(***************************************************************************)
InitCompute ==
  /\ pc = "compute"
  /\ stop = 0
  /\ build \in Builds
  /\ in_rec \in Records
  /\ out_rec = OutInit
  /\ ret = 0
  /\ scan = ScanInit
  /\ nrecv = 0
  /\ out_of = 0
  /\ handed = <<>>
  /\ emitted = <<>>
  /\ memo = NoMemo

Compute ==
  /\ pc = "compute"
  /\ \E oob \in Oobs :
       LET res == process_flow(in_rec, out_rec, oob, build)
       IN /\ out_rec' = res.out
          /\ ret' = res.ret
          /\ scan' = res.scan
  /\ pc' = "computed"
  /\ UNCHANGED <<stop, build, in_rec, nrecv, out_of, handed, emitted, memo>>

NextCompute == Compute

SpecCompute == InitCompute /\ [][NextCompute]_vars

\* out_rec holds what process_flow made of in_rec
Processed == pc \in {"send", "computed"}
\* the common length of the vectors of a valid record
NPackets == Len(in_rec.dirs)

(***************************************************************************)
(* The claims                                                              *)
(***************************************************************************)
out == out_rec

DOne == DFin(FALSE, BigOne, BigOne)

\* a + b of doubles a, b >= 0
DAdd(a, b) ==
  IF a.k = "nan" \/ b.k = "nan" THEN DNaN
  ELSE IF a.k = "inf" \/ b.k = "inf" THEN DInf
  ELSE DFin(FALSE, BAdd(BMul(a.num, b.den), BMul(b.num, a.den)),
            BMul(a.den, b.den))

\* a == b
DEq(a, b) ==
  /\ a.k = "fin"
  /\ b.k = "fin"
  /\ a.neg = b.neg
  /\ BMul(a.num, b.den) = BMul(b.num, a.den)

\* a >= 0
DNonNeg(a) == a.k # "nan" /\ ~a.neg

RECURSIVE SeqMin(_)
SeqMin(q) ==
  IF Len(q) = 1 THEN q[1] ELSE Min2(q[1], SeqMin(Tail(q)))
RECURSIVE SeqMax(_)
SeqMax(q) ==
  IF Len(q) = 1 THEN q[1] ELSE Max2(q[1], SeqMax(Tail(q)))

NonDecreasing(ts) == \A i \in 1..(Len(ts) - 1) : BLe(ts[i], ts[i + 1])

\* the sum of packet_times[i+1] - packet_times[i], in no machine width
RECURSIVE IntervalTotal(_)
IntervalTotal(ts) ==
  IF Len(ts) <= 1 THEN BigZero
  ELSE BAdd(BSub(ts[2], ts[1]), IntervalTotal(Tail(ts)))

\* C1: a record whose three vectors do not all have the same length makes
\* process_flow return the error (-1) and never reaches trap_send.
C1_InvalidRecordRejected ==
  (in_rec # NoRec /\ ~ValidRecord(in_rec)) =>
    /\ pc # "send"
    /\ Processed => ret = -1

\* C2: every ratio or rate whose denominator is zero is output as exactly 0.
C2_ZeroDenominatorYieldsZero ==
  Processed =>
    /\ in_rec.bytes_rev = BigZero => out.BYTES_RATIO = DZero
    /\ in_rec.packets_rev = BigZero => out.PACKETS_RATIO = DZero
    /\ out.TIME_DUR_MS = BigZero =>
         out.BYTES_PER_MS = DZero /\ out.PACKETS_PER_MS = DZero
    /\ scan.interval_cnt = 0 => out.MEAN_TIME_BETWEEN_PKTS = DZero
    /\ scan.sent + scan.recv = 0 =>
         out.SENT_PERCENTAGE = DZero /\ out.RECV_PERCENTAGE = DZero

\* C3: for a valid record with N > 0 packets, sent_fraction + recv_fraction
\* is 1, the fractions being sent/(sent+recv) and recv/(sent+recv) as reals.
C3_FractionsSumToOne ==
  (Processed /\ ValidRecord(in_rec) /\ NPackets > 0) =>
    /\ DEq(DAdd(out.SENT_PERCENTAGE, out.RECV_PERCENTAGE), DOne)
    /\ DEq(out.SENT_PERCENTAGE,
           DDivU(BigOf(scan.sent), BigOf(scan.sent + scan.recv)))
    /\ DEq(out.RECV_PERCENTAGE,
           DDivU(BigOf(scan.recv), BigOf(scan.sent + scan.recv)))

\* C4: for a valid record with N > 0, the output's MIN_PKT_LEN and
\* MAX_PKT_LEN are the minimum and the maximum of packet_lengths.
C4_OutputExtrema ==
  (Processed /\ ValidRecord(in_rec) /\ NPackets > 0) =>
    /\ out.MIN_PKT_LEN = SeqMin(in_rec.lens)
    /\ out.MAX_PKT_LEN = SeqMax(in_rec.lens)

\* C5: for a record with N = 0 (all three vectors empty) the output has mean
\* and variance of the packet length 0, minimum and maximum length 0, mean
\* inter-arrival time 0 and both fractions 0.
C5_EmptyRecordAllZero ==
  (Processed /\ ValidRecord(in_rec) /\ NPackets = 0) =>
    /\ out.MEAN_PKT_LENGTH = DZero
    /\ out.VAR_PKT_LENGTH = DZero
    /\ out.MIN_PKT_LEN = 0
    /\ out.MAX_PKT_LEN = 0
    /\ out.MEAN_TIME_BETWEEN_PKTS = DZero
    /\ out.SENT_PERCENTAGE = DZero
    /\ out.RECV_PERCENTAGE = DZero

\* an empty record was processed into an output record that an earlier,
\* non-empty record had filled
C5_Witness ==
  /\ pc = "send"
  /\ ValidRecord(in_rec) /\ NPackets = 0
  /\ nrecv = 2
  /\ memo # NoMemo
  /\ ValidRecord(memo[1]) /\ Len(memo[1].dirs) = 1

\* C6: bytes_total and packets_total are the mathematical sums of the
\* forward and reverse counters; they never wrap modulo 2^64 or 2^32.
C6_TotalsExact ==
  Processed =>
    /\ out.BYTES_TOTAL = BAdd(in_rec.bytes, in_rec.bytes_rev)
    /\ out.PACKETS_TOTAL = BAdd(in_rec.packets, in_rec.packets_rev)

\* C7: for a valid record with N > 0 the variance of the packet length that
\* is output is >= 0, whatever the 16-bit lengths are.
C7_VarianceNonNegative ==
  (Processed /\ ValidRecord(in_rec) /\ NPackets > 0) =>
    DNonNeg(out.VAR_PKT_LENGTH)

\* C8: every record received that passes the size check is processed and
\* handed to trap_send exactly once before the next receive: the calls of
\* trap_send are for records 1, 2, 3, ... in this order, each with the output
\* made from that record, at most one record is in flight, and what is
\* emitted is in the order of reception, without duplicates.
C8_InOrderExactlyOnce ==
  /\ Len(handed) = nrecv - (IF pc \in {"process", "send"} THEN 1 ELSE 0)
  /\ \A i \in 1..Len(handed) : handed[i].id = i /\ handed[i].of = i
  /\ \A i \in 1..Len(emitted) : emitted[i] \in 1..Len(handed)
  /\ \A i \in 1..(Len(emitted) - 1) : emitted[i] < emitted[i + 1]

\* two records went through the loop; the first send timed out, the second
\* was accepted
C8_Witness ==
  /\ pc = "loop"
  /\ nrecv = 2
  /\ Len(handed) = 2
  /\ emitted = <<2>>

\* C9: the output made for a record depends on that record only: processing
\* the same input again, after any other records, gives the same output
\* record in every field.
C9_SameInputSameOutput ==
  (pc = "send" /\ memo # NoMemo /\ memo[1] = in_rec) => out_rec = memo[2]

\* C10: for a valid record with N > 0 and non-decreasing packet_times, the
\* interval counter is N, the interval sum is the sum of the consecutive
\* differences, untruncated, and the mean inter-arrival time is that sum
\* divided by N.
C10_IntervalSumAndMean ==
  (Processed /\ ValidRecord(in_rec) /\ NPackets > 0
     /\ NonDecreasing(in_rec.times)) =>
    /\ scan.interval_cnt = NPackets
    /\ scan.interval_sum = IntervalTotal(in_rec.times)
    /\ DEq(out.MEAN_TIME_BETWEEN_PKTS,
           DDivU(IntervalTotal(in_rec.times), BigOf(NPackets)))
=============================================================================
